---- MODULE Spec2Model ----
(***************************************************************************)
(* Rolling success/failure window of the circuit breaker (window.go): a    *)
(* ring of buckets, advanced lazily by getLatestBucket as the clock moves. *)
(* Time is counted in integer clock ticks (nanoseconds in the source).     *)
(***************************************************************************)
EXTENDS Integers, FiniteSets, Sequences, TLC

\* ------------------------------------------------------------------ bounds
MaxWindowTime == 4   \* windowTime is drawn from 0..MaxWindowTime
MaxBuckets == 3      \* windowBuckets is drawn from -1..MaxBuckets
MaxCap == 1          \* the per-bucket cap is drawn from 0..MaxCap
MaxTime == 5         \* the mock clock stops advancing at MaxTime
MaxCalls == 3        \* at most MaxCalls Fail()/Success() calls in a run
MaxOverload == 4     \* the overload factor k of the smoothing run is drawn from 2..MaxOverload
MaxMult == 3         \* its bucket duration is k times 1..MaxMult ticks
NumThreads == 2      \* concurrent callers
ConcMaxTime == 3     \* concurrent runs: the clock stops advancing at ConcMaxTime
ConcCalls == 3       \* concurrent runs: at most ConcCalls calls in all

\* concurrent runs: the windows constructed, as <<windowTime, windowBuckets>>
ConcWindows == {<<4, 2>>}

NoTime == 0 - 1      \* "no event" in the bookkeeping of event times

VARIABLES
  status,        \* outcome of newWindow: "none" (not called), "ok", "panic"
  fault,         \* the runtime fault newWindow died of, "" if none
  buckets,       \* w.buckets: [0..n-1 -> [failure, success]]
  bucketTime,    \* w.bucketTime
  lastAccess,    \* w.lastAccess
  lastIdx,       \* w.lastIdx
  now,           \* the reading of w.clock
  limited,       \* per-bucket limited-failure counter (not in window.go)
  perBucketCap,  \* per-bucket failure cap, 0 = unbounded (not in window.go)
  nFail,         \* history: number of Fail() calls started
  nSucc,         \* history: number of Success() calls started
  nOther,        \* history: number of Reset() and query calls started by the threads
  didReset,      \* history: Reset() has been called
  lastEvt,       \* history: clock reading of the latest Fail()/Success() call
  prevEvt,       \* history: clock reading of the Fail()/Success() call before it
  lastElapsed,   \* history: now - lastAccess as the latest Fail()/Success() saw it
  hist,          \* history: per bucket, the events counted since its last reset
  args,          \* history: the arguments newWindow was called with
  loop,          \* the driver of the smoothing run: [k, i, unit, pass], <<>> when not running
  bucketLock,    \* w.bucketLock: 0 when free, else the thread holding it
  lin,           \* history: lastIdx and lastAccess as getLatestBucket, run in one piece
                 \* at each taking of the lock, leaves them
  th             \* per thread: the call it runs, where it stands in it, its locals

vars == <<status, fault, buckets, bucketTime, lastAccess, lastIdx, now, limited,
          perBucketCap, nFail, nSucc, nOther, didReset, lastEvt, prevEvt, lastElapsed, hist, args, loop, bucketLock, lin, th>>

\* ------------------------------------------------------------------ bucket
ZeroBucket == [failure |-> 0, success |-> 0]

\* bucket.Reset, first store: atomic.StoreInt64(&b.failure, 0)
bucket_ResetFailure(b) == [b EXCEPT !.failure = 0]

\* bucket.Reset, second store: atomic.StoreInt64(&b.success, 0)
bucket_ResetSuccess(b) == [b EXCEPT !.success = 0]

\* a Reset that forgets the failure counter
bucket_Reset_KeepsFailure(b) == bucket_ResetSuccess(b)

\* bucket.Reset, run alone: both counters stored to 0
bucket_Reset(b) == bucket_ResetSuccess(bucket_ResetFailure(b))

\* a Fail that stores 1 instead of adding 1
bucket_Fail_Stores(b) == [b EXCEPT !.failure = 1]

\* bucket.Fail: atomic.AddInt64(&b.failure, 1)
bucket_Fail(b) == [b EXCEPT !.failure = @ + 1]

\* a Success that loads, adds and stores back what it loaded first: calls that
\* interleave overwrite each other
bucket_Success_Stores(b) == [b EXCEPT !.success = 1]

\* bucket.Success: atomic.AddInt64(&b.success, 1)
bucket_Success(b) == [b EXCEPT !.success = @ + 1]

\* ------------------------------------------------------------------ window
\* the fields of the window that recording and rotation read and write
W == [buckets |-> buckets, limited |-> limited, lastIdx |-> lastIdx, lastAccess |-> lastAccess]

\* len(w.buckets)
NumBuckets(w) == Cardinality(DOMAIN w.buckets)

\* Go's truncated integer division, for a non-negative dividend
GoDiv(a, b) == a \div b

\* the loop without its early break: every rotation clears the whole ring
RECURSIVE RotateLoop_NoBreak(_, _, _)
RotateLoop_NoBreak(w, elapsed, i) ==
  IF i >= NumBuckets(w) THEN w
  ELSE LET idx == w.lastIdx + 1
           k == idx % NumBuckets(w)
       IN RotateLoop_NoBreak([w EXCEPT !.lastIdx = idx, !.buckets[k] = bucket_Reset(@), !.limited[k] = 0], elapsed, i + 1)

\* the loop stopping one iteration short (i < n - 1)
RECURSIVE RotateLoop_StopsShort(_, _, _)
RotateLoop_StopsShort(w, elapsed, i) ==
  IF i >= NumBuckets(w) - 1 THEN w
  ELSE LET idx == w.lastIdx + 1
           k == idx % NumBuckets(w)
           w1 == [w EXCEPT !.lastIdx = idx, !.buckets[k] = bucket_Reset(@), !.limited[k] = 0]
           e1 == elapsed - bucketTime
       IN IF e1 < bucketTime THEN w1 ELSE RotateLoop_StopsShort(w1, e1, i + 1)

\* the loop breaking one iteration late (elapsed < 0 for elapsed < bucketTime)
RECURSIVE RotateLoop_BreaksLate(_, _, _)
RotateLoop_BreaksLate(w, elapsed, i) ==
  IF i >= NumBuckets(w) THEN w
  ELSE LET idx == w.lastIdx + 1
           k == idx % NumBuckets(w)
           w1 == [w EXCEPT !.lastIdx = idx, !.buckets[k] = bucket_Reset(@), !.limited[k] = 0]
           e1 == elapsed - bucketTime
       IN IF e1 < 0 THEN w1 ELSE RotateLoop_BreaksLate(w1, e1, i + 1)

\* the loop breaking already when the elapsed time left equals bucketTime (<= for <)
RECURSIVE RotateLoop_BreakAtBoundary(_, _, _)
RotateLoop_BreakAtBoundary(w, elapsed, i) ==
  IF i >= NumBuckets(w) THEN w
  ELSE LET idx == w.lastIdx + 1
           k == idx % NumBuckets(w)
           w1 == [w EXCEPT !.lastIdx = idx, !.buckets[k] = bucket_Reset(@), !.limited[k] = 0]
           e1 == elapsed - bucketTime
       IN IF e1 <= bucketTime THEN w1 ELSE RotateLoop_BreakAtBoundary(w1, e1, i + 1)

\* the for loop of getLatestBucket, from iteration i on, with `elapsed` left.
\* lastIdx is a uint64 that a run of a few calls leaves far from wrapping. The
\* limited-failure counter of a bucket, which window.go does not have, is
\* zeroed with the bucket's two counters.
RECURSIVE RotateLoop(_, _, _)
RotateLoop(w, elapsed, i) ==
  IF i >= NumBuckets(w) THEN w
  ELSE LET idx == w.lastIdx + 1
           k == idx % NumBuckets(w)
           w1 == [w EXCEPT !.lastIdx = idx, !.buckets[k] = bucket_Reset(@), !.limited[k] = 0]
           e1 == elapsed - bucketTime
       IN IF e1 < bucketTime THEN w1 ELSE RotateLoop(w1, e1, i + 1)

\* getLatestBucket rotating already at elapsed = bucketTime (>= for >)
getLatestBucket_AtBoundary(w, t) ==
  LET elapsed == t - w.lastAccess
  IN IF elapsed >= bucketTime
       THEN [RotateLoop(w, elapsed, 0) EXCEPT !.lastAccess = t]
       ELSE w

\* getLatestBucket noting the time of every access (lastAccess = now outside the if)
getLatestBucket_TouchesLastAccess(w, t) ==
  LET elapsed == t - w.lastAccess
  IN IF elapsed > bucketTime
       THEN [RotateLoop(w, elapsed, 0) EXCEPT !.lastAccess = t]
       ELSE [w EXCEPT !.lastAccess = t]

\* getLatestBucket at clock reading t: the window afterwards; the bucket it
\* returns is the one at lastIdx % n of the result
getLatestBucket(w, t) ==
  LET elapsed == t - w.lastAccess
  IN IF elapsed > bucketTime
       THEN [RotateLoop(w, elapsed, 0) EXCEPT !.lastAccess = t]
       ELSE w

\* index of the bucket getLatestBucket returns
Current(w) == w.lastIdx % NumBuckets(w)

\* FailLimited(cap): count the failure while the bucket is below the cap,
\* count it as limited once the cap is reached
bucket_FailLimited(w, k, cap) ==
  IF w.buckets[k].failure < cap
    THEN [w EXCEPT !.buckets[k] = bucket_Fail(@)]
    ELSE [w EXCEPT !.limited[k] = @ + 1]

\* b.Fail() on the bucket Fail() obtained; the capped variant when a cap is set
RecordFail(w, k, cap) ==
  IF cap = 0 THEN [w EXCEPT !.buckets[k] = bucket_Fail(@)] ELSE bucket_FailLimited(w, k, cap)

\* b.Success() on the bucket Success() obtained
RecordSuccess(w, k) == [w EXCEPT !.buckets[k] = bucket_Success(@)]

\* window.Fail, run alone: lock, getLatestBucket, unlock, b.Fail()
window_Fail(w, t, cap) == LET w1 == getLatestBucket(w, t) IN RecordFail(w1, Current(w1), cap)

\* window.Success, run alone: lock, getLatestBucket, unlock, b.Success()
window_Success(w, t) == LET w1 == getLatestBucket(w, t) IN RecordSuccess(w1, Current(w1))

\* a Reset whose loop misses the last bucket (i < len - 1)
window_Reset_SkipsLast(w) ==
  [w EXCEPT !.buckets = [i \in DOMAIN w.buckets |-> IF i = NumBuckets(w) - 1 THEN w.buckets[i] ELSE bucket_Reset(w.buckets[i])],
            !.limited = [i \in DOMAIN w.limited |-> 0]]

\* window.Reset, run alone: every bucket reset, nothing else touched
window_Reset(w) ==
  [w EXCEPT !.buckets = [i \in DOMAIN w.buckets |-> bucket_Reset(w.buckets[i])],
            !.limited = [i \in DOMAIN w.limited |-> 0]]

\* the loop of window.Failures from bucket i on
RECURSIVE FailuresFrom(_, _)
FailuresFrom(bs, i) == IF i >= Cardinality(DOMAIN bs) THEN 0 ELSE bs[i].failure + FailuresFrom(bs, i + 1)

\* the loop of window.Successes from bucket i on
RECURSIVE SuccessesFrom(_, _)
SuccessesFrom(bs, i) == IF i >= Cardinality(DOMAIN bs) THEN 0 ELSE bs[i].success + SuccessesFrom(bs, i + 1)

\* the loop of window.Total from bucket i on
RECURSIVE TotalFrom(_, _)
TotalFrom(bs, i) == IF i >= Cardinality(DOMAIN bs) THEN 0 ELSE (bs[i].success + bs[i].failure) + TotalFrom(bs, i + 1)

\* window.Failures
Failures(bs) == FailuresFrom(bs, 0)

\* window.Successes
Successes(bs) == SuccessesFrom(bs, 0)

\* window.Total
Total(bs) == TotalFrom(bs, 0)

\* a float64 quotient of two small integers, kept as the fraction <<num, den>>;
\* 0.0 is <<0, 1>>
Ratio(failures, total) == IF total = 0 THEN <<0, 1>> ELSE <<failures, total>>

\* an ErrorRate that forgets total += failures
ErrorRateOf_ForgetsFailures(successes, failures) == Ratio(failures, successes)

\* window.ErrorRate, from the successes and failures its loop has read
ErrorRateOf(successes, failures) == LET total == successes + failures IN Ratio(failures, total)

\* window.ErrorRate
ErrorRate(bs) == ErrorRateOf(Successes(bs), Failures(bs))

\* ------------------------------------------------------------------ history
EmptyHist == [oldest |-> NoTime, newest |-> NoTime, fails |-> 0]

\* the buckets a rotation from w to w1 has stepped onto (and reset)
ResetSet(w, w1) == {(w.lastIdx + j) % NumBuckets(w) : j \in 1..(w1.lastIdx - w.lastIdx)}

\* the per-bucket history after a call at time t rotated w into w1 and counted
\* its event in bucket k
HistAfter(w, w1, t, isFail) ==
  LET k == Current(w1)
      h0 == [i \in DOMAIN hist |-> IF i \in ResetSet(w, w1) THEN EmptyHist ELSE hist[i]]
  IN [h0 EXCEPT ![k] = [oldest |-> IF @.oldest = NoTime THEN t ELSE @.oldest,
                        newest |-> t,
                        fails |-> @.fails + (IF isFail THEN 1 ELSE 0)]]

\* ------------------------------------------------------------------ threads
Threads == 1..NumThreads

\* a thread outside any call; ret is what a call returns (<<v>> for a count,
\* <<num, den>> for an error rate, <<>> for none), total and failures what it read;
\* clean (history) is FALSE for a query that a Fail(), Success() or Reset() call
\* has overlapped
IdleThread == [pc |-> "idle", op |-> "none", b |-> 0, i |-> 0, elapsed |-> 0, t |-> 0, total |-> 0, failures |-> 0, ret |-> <<>>, clean |-> TRUE]

\* the calls that write counters, and the queries
Mutators == {"Fail", "Success", "Reset"}
Queries == {"Failures", "Successes", "Total", "ErrorRate"}

\* thread record r at the return of its query with value v: the loop variable
\* is gone, what the query read and what it returns is at hand
Returned(r, v) == [IdleThread EXCEPT !.pc = "ret", !.op = r.op, !.total = r.total, !.failures = r.failures, !.ret = v, !.clean = r.clean]

\* ------------------------------------------------------------------ actions
\* len(w.buckets)
N == Cardinality(DOMAIN buckets)

Init ==
  /\ status = "none" /\ fault = ""
  /\ buckets = <<>> /\ limited = <<>>
  /\ bucketTime = 0 /\ lastAccess = 0 /\ lastIdx = 0 /\ now = 0
  /\ perBucketCap = 0
  /\ nFail = 0 /\ nSucc = 0 /\ nOther = 0 /\ didReset = FALSE
  /\ lastEvt = NoTime /\ prevEvt = NoTime /\ lastElapsed = NoTime
  /\ hist = <<>> /\ args = <<>> /\ loop = <<>>
  /\ bucketLock = 0 /\ th = [t \in Threads |-> IdleThread]
  /\ lin = [lastIdx |-> 0, lastAccess |-> 0]

Unconstructed == UNCHANGED <<buckets, bucketTime, lastAccess, lastIdx, limited, perBucketCap, hist>>

\* a step of a run with a single caller
Alone == UNCHANGED <<bucketLock, th, nOther, lin>>

History == UNCHANGED <<nFail, nSucc, didReset, lastEvt, prevEvt, lastElapsed>>

\* newWindow(windowTime, windowBuckets, clock, cap)
newWindow(windowTime, windowBuckets, cap) ==
  /\ status = "none"
  /\ IF windowBuckets < 0
       THEN \* make([]bucket, windowBuckets) panics
            status' = "panic" /\ fault' = "makeslice: len out of range" /\ Unconstructed
       ELSE IF windowBuckets = 0
         THEN \* windowTime.Nanoseconds() / int64(0) panics
              status' = "panic" /\ fault' = "integer divide by zero" /\ Unconstructed
         ELSE /\ status' = "ok" /\ fault' = ""
              /\ buckets' = [i \in 0..(windowBuckets - 1) |-> ZeroBucket]
              /\ limited' = [i \in 0..(windowBuckets - 1) |-> 0]
              /\ hist' = [i \in 0..(windowBuckets - 1) |-> EmptyHist]
              /\ bucketTime' = GoDiv(windowTime, windowBuckets)
              /\ lastAccess' = now
              /\ lastIdx' = 0
              /\ perBucketCap' = cap
  /\ args' = [windowTime |-> windowTime, windowBuckets |-> windowBuckets, cap |-> cap]
  /\ UNCHANGED now /\ History

New == \E wt \in 0..MaxWindowTime, wb \in (0 - 1)..MaxBuckets, c \in 0..MaxCap : newWindow(wt, wb, c) /\ UNCHANGED loop /\ Alone

Install(w) == buckets' = w.buckets /\ limited' = w.limited /\ lastIdx' = w.lastIdx /\ lastAccess' = w.lastAccess

\* the history of a Fail()/Success() call made now
Called == lastEvt' = now /\ prevEvt' = lastEvt /\ lastElapsed' = now - lastAccess

\* one Fail() call at the present clock reading
FailCall ==
  /\ Install(window_Fail(W, now, perBucketCap))
  /\ hist' = HistAfter(W, getLatestBucket(W, now), now, TRUE)
  /\ nFail' = nFail + 1 /\ Called
  /\ UNCHANGED <<status, fault, bucketTime, perBucketCap, nSucc, didReset, args>>

Fail ==
  /\ status = "ok" /\ nFail + nSucc < MaxCalls
  /\ FailCall
  /\ UNCHANGED <<now, loop>> /\ Alone

Success ==
  /\ status = "ok" /\ nFail + nSucc < MaxCalls
  /\ Install(window_Success(W, now))
  /\ hist' = HistAfter(W, getLatestBucket(W, now), now, FALSE)
  /\ nSucc' = nSucc + 1 /\ Called
  /\ UNCHANGED <<status, fault, bucketTime, now, perBucketCap, nFail, didReset, args, loop>> /\ Alone

Reset ==
  /\ status = "ok"
  /\ Install(window_Reset(W))
  /\ hist' = [i \in DOMAIN hist |-> EmptyHist]
  /\ didReset' = TRUE
  /\ UNCHANGED <<status, fault, bucketTime, now, perBucketCap, nFail, nSucc, lastEvt, prevEvt, lastElapsed, args, loop>> /\ Alone

\* the mock clock's Add(d)
Add(d) ==
  /\ status = "ok" /\ now + d <= MaxTime
  /\ now' = now + d
  /\ UNCHANGED <<status, fault, buckets, bucketTime, lastAccess, lastIdx, limited, perBucketCap, hist, args, loop>> /\ History /\ Alone

Advance == \E d \in 1..MaxTime : Add(d)

Next == New \/ Fail \/ Success \/ Reset \/ Advance

Spec == Init /\ [][Next]_vars

\* ------------------------------------------------------------------ smoothing run
\* TestWindowSmooth: a window of n buckets of `unit` ticks each with cap `cap`
SmoothNew(n, k, cap, unit) ==
  /\ newWindow(unit * n, n, cap)
  /\ loop' = [k |-> k, i |-> 0, unit |-> unit, pass |-> 0] /\ Alone

SmoothStart == \E n \in 1..MaxBuckets, k \in 2..MaxOverload, cap \in 1..MaxCap, m \in 1..MaxMult : SmoothNew(n, k, cap, k * m)

\* the number of iterations of the loop: limited*k*n
SmoothLen == perBucketCap * loop.k * N

\* one iteration: w.Fail(), then every `cap` iterations c.Add(unit / k)
SmoothIter ==
  /\ status = "ok" /\ loop # <<>> /\ loop.i < SmoothLen
  /\ FailCall
  /\ now' = IF loop.i % perBucketCap = 0 THEN now + GoDiv(loop.unit, loop.k) ELSE now
  /\ loop' = [loop EXCEPT !.i = @ + 1] /\ Alone

\* the loop has run to its end: w.Failures() is read
SmoothDone == status = "ok" /\ loop # <<>> /\ loop.i = SmoothLen /\ loop.pass = 0

\* after the loop, twice: c.Add(2 * n * unit), then w.Success()
SmoothPass ==
  /\ status = "ok" /\ loop # <<>> /\ loop.i = SmoothLen /\ loop.pass < 2
  /\ now' = now + loop.unit * N * 2
  /\ Install(window_Success(W, now'))
  /\ hist' = HistAfter(W, getLatestBucket(W, now'), now', FALSE)
  /\ nSucc' = nSucc + 1
  /\ lastEvt' = now' /\ prevEvt' = lastEvt /\ lastElapsed' = now' - lastAccess
  /\ loop' = [loop EXCEPT !.pass = @ + 1]
  /\ UNCHANGED <<status, fault, bucketTime, perBucketCap, nFail, didReset, args>> /\ Alone

\* both passes are done: the limited fields are read
SmoothEnd == status = "ok" /\ loop # <<>> /\ loop.pass = 2

SmoothNext == SmoothStart \/ SmoothIter \/ SmoothPass

SmoothSpec == Init /\ [][SmoothNext]_vars

\* ------------------------------------------------------------------ concurrent callers
\* what the steps of the calls leave alone
Kept == UNCHANGED <<status, fault, bucketTime, perBucketCap, lastEvt, prevEvt, lastElapsed, hist, args, loop>>

\* what every step but the taking of the lock leaves alone
Fixed == Kept /\ UNCHANGED lin

\* what the steps inside a call leave alone as well
Counted == UNCHANGED <<nFail, nSucc, nOther, didReset>>

ConcNew == \E c \in ConcWindows : newWindow(c[1], c[2], 0) /\ UNCHANGED loop /\ Alone

\* where each call starts
FirstPc(op) ==
  CASE op \in {"Fail", "Success"} -> "lock"
    [] op = "Reset" -> "rsF"
    [] op = "Failures" -> "ldF"
    [] op = "Successes" -> "ldS"
    [] op = "Total" -> "tlS"
    [] op = "ErrorRate" -> "erS"

\* thread t enters a call; the threads are alike, so of the idle threads the
\* lowest takes the call
Call(t, op) ==
  /\ status = "ok" /\ th[t].pc = "idle"
  /\ \A u \in Threads : u < t => th[u].pc # "idle"
  /\ nFail + nSucc + nOther < ConcCalls
  /\ th' = [u \in Threads |->
              IF u = t THEN [IdleThread EXCEPT !.pc = FirstPc(op), !.op = op,
                                               !.clean = (op \in Queries => \A v \in Threads : th[v].op \notin Mutators)]
              ELSE IF op \in Mutators /\ th[u].op \in Queries THEN [th[u] EXCEPT !.clean = FALSE]
              ELSE th[u]]
  /\ nFail' = nFail + (IF op = "Fail" THEN 1 ELSE 0)
  /\ nSucc' = nSucc + (IF op = "Success" THEN 1 ELSE 0)
  /\ nOther' = nOther + (IF op \in {"Fail", "Success"} THEN 0 ELSE 1)
  /\ didReset' = (didReset \/ op = "Reset")
  /\ UNCHANGED <<buckets, limited, lastIdx, lastAccess, now, bucketLock>> /\ Fixed

Enter == \E t \in Threads, op \in Mutators \cup Queries : Call(t, op)

\* the bookkeeping getLatestBucket, run in one piece now, would leave
Linearized == LET w1 == getLatestBucket(W, now) IN [lastIdx |-> w1.lastIdx, lastAccess |-> w1.lastAccess]

\* a Lock() that does not wait for the lock to be free
Lock_NoExclusion(t) ==
  /\ th[t].pc = "lock"
  /\ bucketLock' = t
  /\ lin' = Linearized
  /\ LET elapsed == now - lastAccess
     IN th' = [th EXCEPT ![t] = [@ EXCEPT !.b = lastIdx % N, !.t = now, !.elapsed = elapsed, !.i = 0,
                                          !.pc = IF elapsed > bucketTime THEN "rotF" ELSE "unlock"]]
  /\ UNCHANGED <<buckets, limited, lastIdx, lastAccess, now>> /\ Counted /\ Kept

\* w.bucketLock.Lock(), then getLatestBucket up to its if: b, now and elapsed
\* are read by the holder of the lock
Lock(t) ==
  /\ th[t].pc = "lock" /\ bucketLock = 0
  /\ bucketLock' = t
  /\ lin' = Linearized
  /\ LET elapsed == now - lastAccess
     IN th' = [th EXCEPT ![t] = [@ EXCEPT !.b = lastIdx % N, !.t = now, !.elapsed = elapsed, !.i = 0,
                                          !.pc = IF elapsed > bucketTime THEN "rotF" ELSE "unlock"]]
  /\ UNCHANGED <<buckets, limited, lastIdx, lastAccess, now>> /\ Counted /\ Kept

\* one iteration of the loop, up to the first store of b.Reset()
RotF(t) ==
  /\ th[t].pc = "rotF"
  /\ lastIdx' = lastIdx + 1
  /\ buckets' = [buckets EXCEPT ![lastIdx' % N] = bucket_ResetFailure(@)]
  /\ th' = [th EXCEPT ![t] = [@ EXCEPT !.b = lastIdx' % N, !.pc = "rotS"]]
  /\ UNCHANGED <<limited, lastAccess, now, bucketLock>> /\ Counted /\ Fixed

\* the rest of the iteration: the second store of b.Reset(), elapsed reduced,
\* the break and the loop condition; past the loop, lastAccess = now
RotS(t) ==
  /\ th[t].pc = "rotS"
  /\ buckets' = [buckets EXCEPT ![th[t].b] = bucket_ResetSuccess(@)]
  /\ limited' = [limited EXCEPT ![th[t].b] = 0]
  /\ LET e1 == th[t].elapsed - bucketTime
         over == e1 < bucketTime \/ th[t].i + 1 >= N
     IN /\ th' = [th EXCEPT ![t] = [@ EXCEPT !.elapsed = e1, !.i = @ + 1, !.pc = IF over THEN "unlock" ELSE "rotF"]]
        /\ lastAccess' = IF over THEN th[t].t ELSE lastAccess
  /\ UNCHANGED <<lastIdx, now, bucketLock>> /\ Counted /\ Fixed

\* a call that goes on without unlocking
Unlock_KeepsLock(t) ==
  /\ th[t].pc = "unlock" /\ bucketLock = t
  /\ th' = [th EXCEPT ![t] = [@ EXCEPT !.pc = "inc", !.t = 0, !.elapsed = 0, !.i = 0]]
  /\ UNCHANGED <<buckets, limited, lastIdx, lastAccess, now, bucketLock>> /\ Counted /\ Fixed

\* w.bucketLock.Unlock()
Unlock(t) ==
  /\ th[t].pc = "unlock" /\ bucketLock = t
  /\ bucketLock' = 0
  /\ th' = [th EXCEPT ![t] = [@ EXCEPT !.pc = "inc", !.t = 0, !.elapsed = 0, !.i = 0]]
  /\ UNCHANGED <<buckets, limited, lastIdx, lastAccess, now>> /\ Counted /\ Fixed

\* b.Fail() or b.Success() on the bucket obtained under the lock
Inc(t) ==
  /\ th[t].pc = "inc"
  /\ LET w1 == IF th[t].op = "Fail" THEN RecordFail(W, th[t].b, perBucketCap) ELSE RecordSuccess(W, th[t].b)
     IN buckets' = w1.buckets /\ limited' = w1.limited
  /\ th' = [th EXCEPT ![t] = IdleThread]
  /\ UNCHANGED <<lastIdx, lastAccess, now, bucketLock>> /\ Counted /\ Fixed

\* window.Reset, bucket i: first store of Reset()
RsF(t) ==
  /\ th[t].pc = "rsF"
  /\ buckets' = [buckets EXCEPT ![th[t].i] = bucket_ResetFailure(@)]
  /\ th' = [th EXCEPT ![t].pc = "rsS"]
  /\ UNCHANGED <<limited, lastIdx, lastAccess, now, bucketLock>> /\ Counted /\ Fixed

\* window.Reset, bucket i: second store of Reset(), i++
RsS(t) ==
  /\ th[t].pc = "rsS"
  /\ buckets' = [buckets EXCEPT ![th[t].i] = bucket_ResetSuccess(@)]
  /\ limited' = [limited EXCEPT ![th[t].i] = 0]
  /\ th' = [th EXCEPT ![t] = IF th[t].i + 1 >= N THEN IdleThread ELSE [@ EXCEPT !.i = @ + 1, !.pc = "rsF"]]
  /\ UNCHANGED <<lastIdx, lastAccess, now, bucketLock>> /\ Counted /\ Fixed

\* a query that notes the time of its access
Reads_TouchesLastAccess(t, r) ==
  /\ th' = [th EXCEPT ![t] = r]
  /\ lastAccess' = now
  /\ UNCHANGED <<buckets, limited, lastIdx, now, bucketLock>> /\ Counted /\ Fixed

\* a step of a query changes the thread alone
Reads(t, r) ==
  /\ th' = [th EXCEPT ![t] = r]
  /\ UNCHANGED <<buckets, limited, lastIdx, lastAccess, now, bucketLock>> /\ Counted /\ Fixed

\* a Failures whose loop reads the first bucket every time
LdF_RereadsFirst(t) ==
  /\ th[t].pc = "ldF"
  /\ LET f == th[t].failures + buckets[0].failure
         last == th[t].i + 1 >= N
         r == [th[t] EXCEPT !.failures = f]
     IN Reads(t, IF last THEN Returned(r, <<f>>) ELSE [r EXCEPT !.i = @ + 1])

\* window.Failures, bucket i: failures += load(b.failure); past the loop, return
LdF(t) ==
  /\ th[t].pc = "ldF"
  /\ LET f == th[t].failures + buckets[th[t].i].failure
         last == th[t].i + 1 >= N
         r == [th[t] EXCEPT !.failures = f]
     IN Reads(t, IF last THEN Returned(r, <<f>>) ELSE [r EXCEPT !.i = @ + 1])

\* window.Successes, bucket i: successes += load(b.success); past the loop, return
LdS(t) ==
  /\ th[t].pc = "ldS"
  /\ LET c == th[t].total + buckets[th[t].i].success
         last == th[t].i + 1 >= N
         r == [th[t] EXCEPT !.total = c]
     IN Reads(t, IF last THEN Returned(r, <<c>>) ELSE [r EXCEPT !.i = @ + 1])

\* window.Total, bucket i: the load of b.success
TlS(t) ==
  /\ th[t].pc = "tlS"
  /\ Reads(t, [th[t] EXCEPT !.total = @ + buckets[th[t].i].success, !.pc = "tlF"])

\* window.Total, bucket i: the load of b.failure; past the loop, return
TlF(t) ==
  /\ th[t].pc = "tlF"
  /\ LET c == th[t].total + buckets[th[t].i].failure
         last == th[t].i + 1 >= N
         r == [th[t] EXCEPT !.total = c]
     IN Reads(t, IF last THEN Returned(r, <<c>>) ELSE [r EXCEPT !.i = @ + 1, !.pc = "tlS"])

\* window.ErrorRate, bucket i: total += load(b.success)
ErS(t) ==
  /\ th[t].pc = "erS"
  /\ Reads(t, [th[t] EXCEPT !.total = @ + buckets[th[t].i].success, !.pc = "erF"])

\* window.ErrorRate, bucket i: failures += load(b.failure); past the loop, the
\* quotient is returned (total holds the successes read)
ErF(t) ==
  /\ th[t].pc = "erF"
  /\ LET f == th[t].failures + buckets[th[t].i].failure
         last == th[t].i + 1 >= N
         r == [th[t] EXCEPT !.failures = f]
     IN Reads(t, IF last THEN Returned(r, ErrorRateOf(th[t].total, f)) ELSE [r EXCEPT !.i = @ + 1, !.pc = "erS"])

\* the query returns to its caller
Return(t) ==
  /\ th[t].pc = "ret"
  /\ Reads(t, IdleThread)

\* the next step of the call thread t is in
Proc(t) == Return(t) \/ Lock(t) \/ RotF(t) \/ RotS(t) \/ Unlock(t) \/ Inc(t) \/ RsF(t) \/ RsS(t) \/ LdF(t) \/ LdS(t) \/ TlS(t) \/ TlF(t) \/ ErS(t) \/ ErF(t)

Step == \E t \in Threads : Proc(t)

\* the clock moves, tick by tick, while calls are under way
Tick ==
  /\ status = "ok" /\ now < ConcMaxTime
  /\ now' = now + 1
  /\ UNCHANGED <<buckets, limited, lastIdx, lastAccess, bucketLock, th>> /\ Counted /\ Fixed

ConcNext == ConcNew \/ Enter \/ Step \/ Tick

ConcSpec == Init /\ [][ConcNext]_vars

\* the scheduler runs every goroutine that can run, and sync.Mutex hands the
\* lock to a waiter that keeps being passed over (its starvation mode)
ConcFair == \A t \in Threads : WF_vars(Proc(t)) /\ SF_vars(Lock(t))

ConcFairSpec == ConcSpec /\ ConcFair

\* ------------------------------------------------------------------ claims
\* this step is one Fail() or Success() call
RecordStep == status = "ok" /\ nFail' + nSucc' = nFail + nSucc + 1

\* the bucket holds nothing
IsEmpty(i) == buckets[i].failure + buckets[i].success + limited[i] = 0

\* C1: on a fresh window without a cap (constructed at clock reading 0), as long
\* as the clock has not advanced by more than bucketTime and Reset() was not
\* called, N Fail() and M Success() calls in any order give Failures() = N,
\* Successes() = M, Total() = N+M and ErrorRate() = N/(N+M), 0 when N = M = 0.
C1_CountsWithinOneBucket ==
  (status = "ok" /\ perBucketCap = 0 /\ ~didReset /\ now <= bucketTime) =>
    /\ Failures(buckets) = nFail
    /\ Successes(buckets) = nSucc
    /\ Total(buckets) = nFail + nSucc
    /\ ErrorRate(buckets) = (IF nFail + nSucc = 0 THEN <<0, 1>> ELSE <<nFail, nFail + nSucc>>)

C1_Witness ==
  /\ status = "ok" /\ perBucketCap = 0 /\ ~didReset
  /\ now = bucketTime /\ now > 0 /\ lastEvt = now /\ prevEvt = 0
  /\ nFail = 2 /\ nSucc = 1

\* C2: a Fail() or Success() call made when the clock is more than the total
\* window duration past the last rotation steps the ring index over every bucket
\* (bucketCount steps, each bucket reset once): afterwards the counts hold the
\* one event of that call and nothing recorded before it.
C2_FullWindowExpiry ==
  [][(RecordStep /\ now - lastAccess > args.windowTime) =>
       /\ lastIdx' = lastIdx + N
       /\ lastAccess' = now
       /\ Failures(buckets') = nFail' - nFail
       /\ Successes(buckets') = nSucc' - nSucc
       /\ Total(buckets') = 1
       /\ \A i \in DOMAIN buckets : limited'[i] = 0
       /\ \A i \in DOMAIN buckets : i # lastIdx' % N => buckets'[i] = ZeroBucket]_vars

C2_Witness ==
  /\ status = "ok" /\ ~didReset /\ N >= 2
  /\ lastEvt = now /\ lastElapsed > args.windowTime
  /\ nFail >= 2 /\ nSucc >= 1
  /\ Total(buckets) = 1

\* C3: when a Fail() or Success() call has returned at clock reading T = now, no
\* bucket holds a count of an event recorded before T minus the window duration.
C3_StalenessBound ==
  (status = "ok" /\ lastEvt = now) =>
    \A i \in DOMAIN buckets : ~IsEmpty(i) => hist[i].oldest >= now - args.windowTime

\* what C4 promises of the step: the index moves by one, the bucket that was
\* current keeps its counts, the next bucket holds exactly the new event
OneBucketOn ==
  LET cur == lastIdx % N
      nxt == (lastIdx + 1) % N
  IN /\ lastIdx' = lastIdx + 1
     /\ buckets'[cur] = buckets[cur] /\ limited'[cur] = limited[cur]
     /\ buckets'[nxt].failure = nFail' - nFail
     /\ buckets'[nxt].success = nSucc' - nSucc
     /\ limited'[nxt] = 0

\* C4 as claimed: with 2 or more buckets, a call made more than bucketTime and
\* less than 2*bucketTime after the previous call moves the ring on by one bucket.
C4_Original ==
  [][(RecordStep /\ N >= 2 /\ lastEvt # NoTime
        /\ bucketTime < now - lastEvt /\ now - lastEvt < 2 * bucketTime) => OneBucketOn]_vars

\* C4 as amended: the same, when the previous call was made at the clock reading
\* of the last rotation (lastAccess), so that the gap between the two calls is
\* the elapsed time the second call sees.
C4_OneBucketOn ==
  [][(RecordStep /\ N >= 2 /\ lastEvt # NoTime /\ lastEvt = lastAccess
        /\ bucketTime < now - lastEvt /\ now - lastEvt < 2 * bucketTime) => OneBucketOn]_vars

C4_Witness ==
  /\ status = "ok" /\ ~didReset /\ N >= 2
  /\ prevEvt # NoTime /\ lastEvt = now
  /\ lastElapsed = lastEvt - prevEvt
  /\ bucketTime < lastElapsed /\ lastElapsed < 2 * bucketTime
  /\ nFail = 2 /\ nSucc = 0
  /\ Cardinality({i \in DOMAIN buckets : buckets[i].failure > 0}) = 2

C6_SmoothBounds ==
  SmoothDone =>
    /\ perBucketCap * N <= Failures(buckets)
    /\ Failures(buckets) < perBucketCap * loop.k * N

\* C7: without a cap every Fail() adds exactly 1 to the failure counter of the
\* bucket it records in, whatever that counter holds, and nothing is ever
\* counted as limited.
C7_UncappedFail ==
  [][(status = "ok" /\ perBucketCap = 0 /\ nFail' = nFail + 1) =>
       LET k == lastIdx' % N
       IN /\ buckets'[k].failure = (IF lastIdx' = lastIdx THEN buckets[k].failure ELSE 0) + 1
          /\ buckets'[k].success = (IF lastIdx' = lastIdx THEN buckets[k].success ELSE 0)
          /\ \A i \in DOMAIN buckets : limited'[i] = 0]_vars

C7_Witness ==
  /\ status = "ok" /\ perBucketCap = 0
  /\ \E i \in DOMAIN buckets : buckets[i].failure = MaxCalls /\ buckets[i].failure > MaxCap

\* C8: Reset() zeroes every bucket, so Failures(), Successes() and Total() are 0
\* after it, and leaves lastIdx, lastAccess and bucketTime as they were.
C8_ResetClears ==
  [][Reset =>
       /\ Failures(buckets') = 0 /\ Successes(buckets') = 0 /\ Total(buckets') = 0
       /\ \A i \in DOMAIN buckets : buckets'[i] = ZeroBucket
       /\ lastIdx' = lastIdx /\ lastAccess' = lastAccess /\ bucketTime' = bucketTime]_vars

C8_Witness ==
  /\ status = "ok" /\ didReset
  /\ nFail >= 1 /\ nSucc >= 1 /\ lastEvt = now
  /\ lastIdx > 0 /\ lastAccess > 0
  /\ Total(buckets) = 0

\* C9: whatever the other callers are doing, an ErrorRate() call never divides
\* by zero and returns a value in [0,1]: 0 when the failures and successes it
\* read sum to 0, failuresRead / (failuresRead + successesRead) otherwise.
C9_ErrorRateInUnitInterval ==
  \A t \in Threads :
    (th[t].pc = "ret" /\ th[t].op = "ErrorRate") =>
      LET f == th[t].failures
          c == th[t].total
          r == th[t].ret
      IN /\ f >= 0 /\ c >= 0
         /\ r[2] > 0
         /\ 0 <= r[1] /\ r[1] <= r[2]
         /\ (f + c = 0 => r = <<0, 1>>)
         /\ (f + c > 0 => r = <<f, f + c>>)

C9_Witness ==
  \E t, u \in Threads :
    /\ t # u
    /\ th[t].pc = "ret" /\ th[t].op = "ErrorRate" /\ th[t].ret = <<1, 1>>
    /\ th[u].pc = "rotS" /\ lastIdx > 0

\* C10: newWindow called with a bucket count <= 0 ends in an explicit
\* InvalidConfiguration failure, never in a runtime fault.
C10_RejectsBadBucketCount ==
  (status # "none" /\ args.windowBuckets <= 0) => (status = "InvalidConfiguration" /\ fault = "")

\* C11: while a caller stands between getLatestBucket (under the lock) and its
\* increment (after the unlock), no other caller's rotation moves the ring index
\* off the bucket it obtained: the increment lands in the current bucket.
C11_IncrementInCurrentBucket ==
  \A t \in Threads : th[t].pc = "inc" => th[t].b = lastIdx % N

\* the Fail() and Success() calls under way
InFlight(op) == Cardinality({t \in Threads : th[t].op = op})

\* C12: as long as no rotation and no Reset() has happened, every Fail() and
\* Success() call that has returned has added exactly one to its counter,
\* however the calls interleaved: Failures() is the number of Fail() calls
\* returned, Successes() the number of Success() calls returned.
C12_NoLostUpdates ==
  (status = "ok" /\ lastIdx = 0 /\ ~didReset) =>
    /\ Failures(buckets) = nFail - InFlight("Fail")
    /\ Successes(buckets) = nSucc - InFlight("Success")
    /\ Total(buckets) = (nFail + nSucc) - (InFlight("Fail") + InFlight("Success"))

C12_Witness ==
  /\ status = "ok" /\ lastIdx = 0 /\ ~didReset
  /\ nFail = 1 /\ nSucc = 2 /\ Failures(buckets) = 1
  /\ \A t \in Threads : th[t].pc = "inc" /\ th[t].op = "Success"

\* the places of getLatestBucket and of the Unlock() that follows it
UnderLock == {"rotF", "rotS", "unlock"}

\* C13: rotation is linearized by the lock. A caller inside getLatestBucket
\* holds bucketLock, so at most one caller is there at a time; lastIdx and
\* lastAccess are written by the holder of the lock alone; and when a
\* getLatestBucket has run to its end, lastIdx and lastAccess are what a single
\* caller's uninterrupted getLatestBucket would have left (a second caller at
\* the same clock reading sees elapsed = 0 and leaves them as they are).
C13_RotationLinearized ==
  /\ [](/\ \A t \in Threads : th[t].pc \in UnderLock => bucketLock = t
        /\ bucketLock # 0 => th[bucketLock].pc \in UnderLock
        /\ (status = "ok" /\ \A t \in Threads : th[t].pc \notin {"rotF", "rotS"}) =>
             (lastIdx = lin.lastIdx /\ lastAccess = lin.lastAccess))
  /\ [][(lastIdx' # lastIdx \/ lastAccess' # lastAccess) =>
         (bucketLock # 0 /\ bucketLock' = bucketLock /\ th'[bucketLock] # th[bucketLock])]_vars
  /\ [][\A t \in Threads : (th[t].pc = "lock" /\ th'[t].pc = "unlock" /\ now = lastAccess) =>
         (th'[t].elapsed = 0 /\ lastIdx' = lastIdx /\ buckets' = buckets)]_vars

C13_Witness ==
  \E t, u \in Threads :
    /\ t # u /\ now > bucketTime /\ lastAccess = now /\ lastIdx = 1
    /\ th[t].pc = "inc" /\ th[t].b = lastIdx % N
    /\ th[u].pc = "unlock" /\ th[u].elapsed = 0 /\ th[u].b = th[t].b

\* C14: under fair scheduling every call that has started returns. On the way:
\* the rotation loop never starts an iteration beyond the bucketCount-th, a
\* caller past its Unlock() (or outside Fail()/Success()) does not hold the
\* lock, and whenever a call is under way some caller can take a step.
C14_EveryCallReturns ==
  /\ [](/\ \A t \in Threads : th[t].i <= N /\ (th[t].pc = "rotF" => th[t].i < N)
        /\ \A t \in Threads : th[t].pc \notin UnderLock => bucketLock # t
        /\ (\E t \in Threads : th[t].pc # "idle") => (\E t \in Threads : ENABLED Proc(t)))
  /\ \A t \in Threads : (th[t].pc # "idle") ~> (th[t].pc = "idle")

C14_Witness ==
  \E t, u \in Threads :
    /\ th[u].pc = "lock" /\ bucketLock = t
    /\ th[t].pc = "rotS" /\ th[t].elapsed > bucketTime /\ lastIdx = 1
    /\ \E i \in DOMAIN buckets : buckets[i].failure + buckets[i].success = 1

\* what query op returns on a window whose counters are bs
QueryOf(op, bs) ==
  CASE op = "Failures" -> <<Failures(bs)>>
    [] op = "Successes" -> <<Successes(bs)>>
    [] op = "Total" -> <<Total(bs)>>
    [] op = "ErrorRate" -> ErrorRate(bs)

\* C15: the queries are pure reads. A step of Failures(), Successes(), Total()
\* or ErrorRate() changes no counter, neither lastIdx nor lastAccess, and does
\* not touch the lock; and a query that no Fail(), Success() or Reset() call
\* overlaps returns the sum (or rate) of the counters as they stand, whatever
\* the clock reads, so that repeating it with no call in between returns the
\* same value.
C15_QueriesArePure ==
  /\ [][\A t \in Threads : (th[t].op \in Queries /\ th'[t] # th[t]) =>
           UNCHANGED <<buckets, limited, lastIdx, lastAccess, bucketLock, bucketTime>>]_vars
  /\ [](\A t \in Threads : (th[t].pc = "ret" /\ th[t].clean) => th[t].ret = QueryOf(th[t].op, buckets))

C15_Witness ==
  \E t \in Threads :
    /\ th[t].pc = "ret" /\ th[t].clean /\ th[t].op = "Total" /\ th[t].ret = <<2>>
    /\ now - lastAccess > bucketTime /\ nOther = 1

Min(a, b) == IF a <= b THEN a ELSE b

\* the number of buckets the claims say a call seeing `elapsed` steps over:
\* min(bucketCount, floor(elapsed / bucketTime)), the quotient taken as
\* unbounded when bucketTime is 0
Quotient(elapsed) == IF bucketTime = 0 THEN N ELSE Min(N, elapsed \div bucketTime)

\* C16: a Fail() or Success() call that sees elapsed = now - lastAccess greater
\* than bucketTime moves lastIdx on by r = min(bucketCount, floor(elapsed /
\* bucketTime)), resets the r buckets after the one that was current and leaves
\* the others as they were, sets lastAccess to now and counts its event in the
\* bucket at the new index.
C16_RotatesByQuotient ==
  [][(RecordStep /\ now - lastAccess > bucketTime) =>
       LET r == Quotient(now - lastAccess)
           passed == {(lastIdx + j) % N : j \in 1..r}
           k == (lastIdx + r) % N
       IN /\ r >= 1
          /\ lastIdx' = lastIdx + r
          /\ lastAccess' = now
          /\ \A i \in DOMAIN buckets \ passed : buckets'[i] = buckets[i] /\ limited'[i] = limited[i]
          /\ \A i \in passed \ {k} : buckets'[i] = ZeroBucket /\ limited'[i] = 0
          /\ buckets'[k] = [failure |-> nFail' - nFail, success |-> nSucc' - nSucc]
          /\ limited'[k] = 0]_vars

C16_Witness ==
  /\ status = "ok" /\ ~didReset /\ N = 3 /\ bucketTime > 0
  /\ lastEvt = now /\ lastElapsed > bucketTime /\ Quotient(lastElapsed) = 2
  /\ lastIdx = 2 /\ lastAccess = now
  /\ buckets[0].failure = 1 /\ buckets[1] = ZeroBucket /\ buckets[2].success = 1

\* C17: a Fail() or Success() call that sees elapsed = now - lastAccess at most
\* bucketTime (the boundary included) leaves lastIdx and lastAccess as they
\* were and resets nothing: it adds its one event to the current bucket and
\* changes nothing else. So calls do not put off the rotation: the first call
\* made more than bucketTime after the last rotation rotates.
C17_NoRotationWithinBucketTime ==
  [][RecordStep =>
       IF now - lastAccess <= bucketTime
         THEN LET cur == lastIdx % N
              IN /\ lastIdx' = lastIdx /\ lastAccess' = lastAccess
                 /\ \A i \in DOMAIN buckets \ {cur} : buckets'[i] = buckets[i] /\ limited'[i] = limited[i]
                 /\ buckets'[cur].success = buckets[cur].success + (nSucc' - nSucc)
                 /\ buckets'[cur].failure + limited'[cur] = buckets[cur].failure + limited[cur] + (nFail' - nFail)
                 /\ (perBucketCap = 0 => limited'[cur] = limited[cur])
         ELSE lastIdx' > lastIdx /\ lastAccess' = now]_vars

C17_Witness ==
  /\ status = "ok" /\ ~didReset /\ perBucketCap = 0
  /\ lastAccess = 0 /\ lastIdx = 0
  /\ prevEvt > 0 /\ prevEvt < lastEvt /\ lastEvt = now /\ now = bucketTime
  /\ lastElapsed = bucketTime
  /\ buckets[0] = [failure |-> 2, success |-> 1]

\* C18: with a cap C, when after the smoothing run the clock has twice been
\* advanced by twice the window and a Success() has each time rotated over
\* every bucket, the limited field of every bucket equals C.
C18_LimitedEqualsCap ==
  SmoothEnd => \A i \in DOMAIN buckets : limited[i] = perBucketCap

\* an event recorded at clock reading t is still counted: a bucket holds the
\* events of a span of time around t
Retained(t) == \E i \in DOMAIN buckets : ~IsEmpty(i) /\ hist[i].oldest <= t /\ t <= hist[i].newest

\* C19: with a single caller and no Reset(), rotation never clears an event
\* younger than bucketCount - 1 bucket durations: a Fail() or Success() call at
\* clock reading T resets no bucket holding an event recorded after
\* T - (bucketCount - 1) * bucketTime, and the event of the call before it, if
\* that young, is still counted when the call has returned.
C19_MinimumRetention ==
  /\ [][RecordStep =>
         \A i \in {(lastIdx + j) % N : j \in 1..(lastIdx' - lastIdx)} :
           hist[i].newest # NoTime => hist[i].newest + (N - 1) * bucketTime <= now]_vars
  /\ []((status = "ok" /\ ~didReset /\ lastEvt = now /\ prevEvt # NoTime
          /\ now < prevEvt + (N - 1) * bucketTime) => Retained(prevEvt))

C19_Witness ==
  /\ status = "ok" /\ ~didReset /\ N = 3 /\ bucketTime > 0
  /\ prevEvt > 0 /\ lastEvt = now /\ now < prevEvt + (N - 1) * bucketTime
  /\ lastIdx = N - 1 /\ lastAccess = now
  /\ buckets[0].success = 1 /\ buckets[lastIdx].failure = 1

\* C20: whatever the callers interleave, no counter is negative and no scan
\* counts an event twice: what Failures() returns is at most the number of
\* Fail() calls started, what Successes() returns at most the number of
\* Success() calls started, what Total() returns at most their sum (and the
\* same for what ErrorRate() and the scans under way have read so far).
C20_NoOverCounting ==
  /\ \A i \in DOMAIN buckets : buckets[i].failure >= 0 /\ buckets[i].success >= 0
  /\ Failures(buckets) <= nFail /\ Successes(buckets) <= nSucc /\ Total(buckets) <= nFail + nSucc
  /\ \A t \in Threads :
       /\ th[t].op \in {"Failures", "ErrorRate"} => th[t].failures <= nFail
       /\ th[t].op \in {"Successes", "ErrorRate"} => th[t].total <= nSucc
       /\ th[t].op = "Total" => th[t].total <= nFail + nSucc
       /\ (th[t].pc = "ret" /\ th[t].op = "Failures") => (0 <= th[t].ret[1] /\ th[t].ret[1] <= nFail)
       /\ (th[t].pc = "ret" /\ th[t].op = "Successes") => (0 <= th[t].ret[1] /\ th[t].ret[1] <= nSucc)
       /\ (th[t].pc = "ret" /\ th[t].op = "Total") => (0 <= th[t].ret[1] /\ th[t].ret[1] <= nFail + nSucc)

C20_Witness ==
  \E t, u \in Threads :
    /\ t # u /\ nFail = 2 /\ lastIdx = 1
    /\ th[t].pc = "ret" /\ th[t].op = "Failures" /\ th[t].ret = <<2>> /\ ~th[t].clean
    /\ buckets[0].failure = 1 /\ buckets[1].failure = 1
    /\ th[u].pc = "idle"

====
